---------------------------- MODULE Spec2Model ----------------------------
(***************************************************************************)
(* Twilio Analyzer (src/twilio_analyzer.py): a Streamlit script that is    *)
(* re-executed top to bottom on every user interaction.  The state that    *)
(* survives a run is the session state (merged_data) and the values of the *)
(* widgets that were rendered.  Each action below is one interaction       *)
(* followed by the complete script run it triggers.                        *)
(*                                                                         *)
(* Data frames are modelled as tables [cols, rows]: a set of column names  *)
(* and a sequence of rows, each row a function from the columns to cells.  *)
(* A cell carries its kind, as pandas' element types do:                   *)
(*   int   n  an integer                                                   *)
(*   float n  a float, n counting ten-thousandths (price -0.0079 is -79)   *)
(*   str   s  text                                                         *)
(*   date  n  a calendar date, n the day of January 2024                   *)
(*   nan      the null value (NaN / NaT / None)                            *)
(***************************************************************************)
EXTENDS Integers, Sequences, FiniteSets, TLC

VARIABLES
    default_exists,          \* os.path.exists(DEFAULT_CUSTOMER_LIST_PATH)
    uploaded_files,          \* value of the log uploader widget (sequence of files)
    uploaded_customer_file,  \* value of the customer list uploader (a table or None)
    merged_data,             \* st.session_state["merged_data"], or None when absent
    selected_customer,       \* sidebar radio "Select a Customer"
    time_range,              \* sidebar radio "Choose data to display:"
    selected_number,         \* selectbox "Select a Phone Number"
    message_logs,            \* the script's message_logs when the upload branch last ended
    customer_list,           \* the script's customer_list when the upload branch last ended
    outcome,                 \* how the last run ended and what it reported
    view                     \* what the analysis section of the last run computed

vars == <<default_exists, uploaded_files, uploaded_customer_file, merged_data,
          selected_customer, time_range, selected_number, message_logs,
          customer_list, outcome, view>>

-----------------------------------------------------------------------------
(* Bounds *)

\* most log files selected in the uploader at once
MaxFiles == 2

-----------------------------------------------------------------------------
(* Cells *)

Scale == 100 * 100

I(n) == [k |-> "int", n |-> n, s |-> ""]
F(n) == [k |-> "float", n |-> n, s |-> ""]
S(s) == [k |-> "str", n |-> 0, s |-> s]
D(n) == [k |-> "date", n |-> n, s |-> ""]
NaN == [k |-> "nan", n |-> 0, s |-> ""]
None == [k |-> "none"]

IsNull(c) == c.k = "nan"

Abs(n) == IF n < 0 THEN -n ELSE n

\* integer division that truncates toward zero, as int(float) does
Trunc(n, d) == IF n < 0 THEN -((-n) \div d) ELSE n \div d

Digit == <<"0", "1", "2", "3", "4", "5", "6", "7", "8", "9">>

RECURSIVE NatStr(_)
NatStr(n) == IF n < 10 THEN Digit[n + 1] ELSE NatStr(n \div 10) \o Digit[(n % 10) + 1]

\* str(n) of a Python int
IntStr(n) == IF n < 0 THEN "-" \o NatStr(-n) ELSE NatStr(n)

\* exactly `places` decimal digits of f
RECURSIVE FracDigits(_, _)
FracDigits(f, places) ==
    IF places = 1 THEN Digit[(f % 10) + 1]
    ELSE FracDigits(f \div 10, places - 1) \o Digit[(f % 10) + 1]

\* the decimals of a float's repr: trailing zeros removed, one digit kept
\* ("5551.0", "0.0079")
RECURSIVE FracStr(_, _)
FracStr(f, places) ==
    IF places > 1 /\ f % 10 = 0 THEN FracStr(f \div 10, places - 1)
    ELSE FracDigits(f, places)

\* str(x) of a Python float
FloatStr(n) ==
    (IF n < 0 THEN "-" ELSE "") \o NatStr(Abs(n) \div Scale) \o "."
        \o FracStr(Abs(n) % Scale, 4)

-----------------------------------------------------------------------------
(* Tables *)

Table(cols, rows) == [cols |-> cols, rows |-> rows]

\* pd.DataFrame()
EmptyFrame == Table({}, <<>>)

Column(t, c) == {t.rows[i][c] : i \in 1..Len(t.rows)}

\* The element type pandas gives a column: integers that share a column with
\* a float or a missing value are stored as floats; a column holding text is
\* an object column and keeps every cell as it is.
Unify(t) ==
    LET kinds(c) == {x.k : x \in Column(t, c)}
        floats(c) == /\ kinds(c) \subseteq {"int", "float", "nan"}
                     /\ kinds(c) \cap {"float", "nan"} # {}
        cell(r, c) == IF r[c].k = "int" /\ floats(c) THEN F(r[c].n * Scale) ELSE r[c]
    IN Table(t.cols, [i \in 1..Len(t.rows) |-> [c \in t.cols |-> cell(t.rows[i], c)]])

\* pd.concat([a, b], ignore_index=True): the union of the columns, a's rows
\* then b's, a column a frame lacks filled with NaN
Concat(a, b) ==
    LET cols == a.cols \cup b.cols
        fill(r) == [c \in cols |-> IF c \in DOMAIN r THEN r[c] ELSE NaN]
        rows == [i \in 1..Len(a.rows) |-> fill(a.rows[i])]
                    \o [i \in 1..Len(b.rows) |-> fill(b.rows[i])]
    IN Unify(Table(cols, rows))

\* load_twilio_logs(uploaded_files)
RECURSIVE ConcatAll(_, _)
ConcatAll(combined_data, files) ==
    IF files = <<>> THEN combined_data
    ELSE ConcatAll(Concat(combined_data, Head(files)), Tail(files))

load_twilio_logs(files) == ConcatAll(EmptyFrame, files)

\* DataFrame.rename(columns={old: new}, inplace=True); a frame without the
\* column old is left as it is
Rename(t, old, new) ==
    IF old \notin t.cols THEN t
    ELSE LET cols == (t.cols \ {old}) \cup {new}
             row(r) == [c \in cols |-> IF c = new THEN r[old] ELSE r[c]]
         IN Table(cols, [i \in 1..Len(t.rows) |-> row(t.rows[i])])

\* frame[c] = f(frame[c]) element by element
MapColumn(t, c, f(_)) ==
    Table(t.cols, [i \in 1..Len(t.rows) |-> [t.rows[i] EXCEPT ![c] = f(@)]])

-----------------------------------------------------------------------------
(* Conversions of the upload branch *)

\* mountain_tz = timezone("US/Mountain"): hours behind UTC; the log dates of
\* the model are January dates, when Mountain Standard Time applies
MountainUtcOffsetHours == 7

\* today = datetime.now(tz=mountain_tz).date(), as the day of January 2024
Today == 6

yesterday == Today - 1

\* What pandas reads out of a timestamp text: the UTC day and hour, or None
\* for text that is no timestamp.
ParseTimestamp(s) ==
    CASE s = "2024-01-05T10:00:00Z" -> [day |-> 5, hour |-> 10]
      [] s = "2024-01-06T03:00:00Z" -> [day |-> 6, hour |-> 3]
      [] s = "2024-01-03T12:00:00Z" -> [day |-> 3, hour |-> 12]
      [] OTHER -> None

\* dt.tz_convert(mountain_tz).dt.date of a UTC timestamp
MountainDate(ts) ==
    IF ts.hour - MountainUtcOffsetHours < 0 THEN D(ts.day - 1) ELSE D(ts.day)

\* pd.to_datetime(x, errors="coerce", utc=True), then the Mountain date.  A
\* number is read as nanoseconds after 1970-01-01T00:00Z, which is
\* 1969-12-31 in Mountain time for every number the model holds.
ToMountainDate(c) ==
    CASE c.k = "str" ->
            IF ParseTimestamp(c.s) = None THEN NaN ELSE MountainDate(ParseTimestamp(c.s))
      [] c.k \in {"int", "float"} -> D(1 - 19724)
      [] OTHER -> NaN

\* Series.astype(str) of one element
AsStr(c) ==
    CASE c.k = "int" -> S(IntStr(c.n))
      [] c.k = "float" -> S(FloatStr(c.n))
      [] c.k = "str" -> c
      [] c.k = "date" -> S("2024-01-" \o (IF c.n < 10 THEN "0" ELSE "") \o IntStr(c.n))
      [] OTHER -> S("nan")

\* The number a text stands for, or NaN
ParseNumber(s) ==
    CASE s = "3" -> I(3)
      [] s = "-2" -> I(-2)
      [] s = "0.02" -> F(200)
      [] s = "-0.0079" -> F(-79)
      [] OTHER -> NaN

\* pd.to_numeric(x, errors="coerce") of one element
ToNumeric(c) ==
    CASE c.k \in {"int", "float"} -> c
      [] c.k = "str" -> ParseNumber(c.s)
      [] OTHER -> NaN

\* pd.to_numeric(frame[c], errors="coerce"): a numeric column
NumericColumn(t, c) == Unify(MapColumn(t, c, ToNumeric))

\* .fillna(0).astype(int) of one element
FillnaAsInt(c) ==
    CASE c.k = "int" -> c
      [] c.k = "float" -> I(Trunc(c.n, Scale))
      [] OTHER -> I(0)

\* .abs().fillna(0) of one element
AbsFillna(c) ==
    CASE c.k = "int" -> I(Abs(c.n))
      [] c.k = "float" -> F(Abs(c.n))
      [] OTHER -> F(0)

\* the value of a numeric cell in ten-thousandths
Value(c) == IF c.k = "int" THEN c.n * Scale ELSE c.n

\* Merge as an inner join: a left row without a match is dropped
MergeInner(left, right) ==
    LET key == "PhoneNumber"
        both == (left.cols \cap right.cols) \ {key}
        lname(c) == IF c \in both THEN c \o "_x" ELSE c
        rname(c) == IF c \in both THEN c \o "_y" ELSE c
        cols == {lname(c) : c \in left.cols} \cup {rname(c) : c \in right.cols \ {key}}
        join(l, r) ==
            [c \in cols |->
                IF \E lc \in left.cols : lname(lc) = c
                THEN l[CHOOSE lc \in left.cols : lname(lc) = c]
                ELSE r[CHOOSE rc \in right.cols \ {key} : rname(rc) = c]]
        matches(l) == SelectSeq(right.rows, LAMBDA r : r[key] = l[key])
        one(l) == [j \in 1..Len(matches(l)) |-> join(l, matches(l)[j])]
        RECURSIVE all(_)
        all(ls) == IF ls = <<>> THEN <<>> ELSE one(Head(ls)) \o all(Tail(ls))
    IN Unify(Table(cols, all(left.rows)))

\* pd.merge(left, right, on="PhoneNumber", how="left"): the left rows in
\* order, each once per right row with the same key, or once with the
\* right's columns null; a column name both sides have gets _x and _y
Merge(left, right) ==
    LET key == "PhoneNumber"
        both == (left.cols \cap right.cols) \ {key}
        lname(c) == IF c \in both THEN c \o "_x" ELSE c
        rname(c) == IF c \in both THEN c \o "_y" ELSE c
        cols == {lname(c) : c \in left.cols} \cup {rname(c) : c \in right.cols \ {key}}
        nulls == [c \in right.cols |-> NaN]
        join(l, r) ==
            [c \in cols |->
                IF \E lc \in left.cols : lname(lc) = c
                THEN l[CHOOSE lc \in left.cols : lname(lc) = c]
                ELSE r[CHOOSE rc \in right.cols \ {key} : rname(rc) = c]]
        matches(l) == SelectSeq(right.rows, LAMBDA r : r[key] = l[key])
        one(l) == IF matches(l) = <<>> THEN <<join(l, nulls)>>
                  ELSE [j \in 1..Len(matches(l)) |-> join(l, matches(l)[j])]
        RECURSIVE all(_)
        all(ls) == IF ls = <<>> THEN <<>> ELSE one(Head(ls)) \o all(Tail(ls))
    IN Unify(Table(cols, all(left.rows)))

-----------------------------------------------------------------------------
(* Input files *)

LogColumns == {"dateSent", "to", "numSegments", "price", "status", "body"}

\* a plain export: typed columns, one message sent yesterday (Mountain time)
LogA ==
    Table(LogColumns,
          << [dateSent |-> S("2024-01-05T10:00:00Z"), to |-> I(5551), numSegments |-> I(2),
              price |-> F(-79), status |-> S("delivered"), body |-> S("ALARM: door open")],
             [dateSent |-> S("2024-01-03T12:00:00Z"), to |-> I(5552), numSegments |-> I(1),
              price |-> F(-79), status |-> S("failed"), body |-> S("hello")] >>)

\* text where numbers and a timestamp are expected; a number the directory
\* does not hold; the second message is yesterday's only in Mountain time
LogB ==
    Table(LogColumns,
          << [dateSent |-> S("not a date"), to |-> I(5551), numSegments |-> S("abc"),
              price |-> S("free"), status |-> S("delivered"), body |-> S("hello")],
             [dateSent |-> S("2024-01-06T03:00:00Z"), to |-> I(5553), numSegments |-> S("3"),
              price |-> S("0.02"), status |-> S("sent"), body |-> S("hello")] >>)

\* a negative segment count, a positive price, and missing values
LogC ==
    Table(LogColumns,
          << [dateSent |-> S("2024-01-03T12:00:00Z"), to |-> I(5551), numSegments |-> F(-2 * Scale),
              price |-> F(200), status |-> S("delivered"), body |-> S("ALARM: door open")],
             [dateSent |-> NaN, to |-> I(5552), numSegments |-> NaN,
              price |-> NaN, status |-> S("failed"), body |-> S("hello")] >>)

\* no dateSent column
LogD ==
    Table(LogColumns \ {"dateSent"},
          << [to |-> I(5551), numSegments |-> I(1), price |-> F(-79),
              status |-> S("delivered"), body |-> S("hello")] >>)

\* only the timestamp, the destination and the text
LogE ==
    Table({"dateSent", "to", "body"},
          << [dateSent |-> S("2024-01-05T10:00:00Z"), to |-> I(5552), body |-> S("hello")] >>)

\* no status column; a negative integer segment count
LogF ==
    Table(LogColumns \ {"status"},
          << [dateSent |-> S("2024-01-03T12:00:00Z"), to |-> I(5551), numSegments |-> I(-1),
              price |-> F(-79), body |-> S("ALARM: door open")] >>)

\* no destination column
LogG ==
    Table(LogColumns \ {"to"},
          << [dateSent |-> S("2024-01-05T10:00:00Z"), numSegments |-> I(1), price |-> F(-79),
              status |-> S("delivered"), body |-> S("hello")] >>)

LogFiles == {LogA, LogB, LogC, LogD, LogE, LogF, LogG}

\* every ordered selection of at most MaxFiles log files
RECURSIVE FileSeqs(_)
FileSeqs(n) ==
    IF n = 0 THEN {<<>>}
    ELSE FileSeqs(n - 1) \cup {Append(fs, f) : fs \in {x \in FileSeqs(n - 1) : Len(x) = n - 1}, f \in LogFiles}

\* TwilioPhoneMap.xlsx: one customer per number
DefaultCustomerList ==
    Table({"Number", "CO"},
          << [Number |-> I(5551), CO |-> S("VITAL")],
             [Number |-> I(5552), CO |-> S("ACME")] >>)

\* a number listed for two customers
DirDup ==
    Table({"Number", "CO"},
          << [Number |-> I(5551), CO |-> S("VITAL")],
             [Number |-> I(5551), CO |-> S("ACME")],
             [Number |-> I(5553), CO |-> S("ACME")] >>)

\* a blank number cell: the spreadsheet's numbers are read as floats
DirFloat ==
    Table({"Number", "CO"},
          << [Number |-> F(5551 * Scale), CO |-> S("VITAL")],
             [Number |-> NaN, CO |-> S("ACME")] >>)

\* no customer code column
DirNoCO ==
    Table({"Number", "Name"},
          << [Number |-> I(5551), Name |-> S("Vital Inc")] >>)

\* no number column
DirNoNumber ==
    Table({"Phone", "CO"},
          << [Phone |-> I(5551), CO |-> S("VITAL")] >>)

CustomerFiles == {DirDup, DirFloat, DirNoCO, DirNoNumber}

-----------------------------------------------------------------------------
(* The upload branch of the script: lines 66-125 *)

\* How a run, or a part of one, ended: "ok" (ran to its end), "stopped"
\* (st.stop() after an st.error) or "exception" (an uncaught exception); and
\* the error it showed.
Ended(status, message) == [status |-> status, message |-> message]

NoDefaultMessage == "No default customer list found. Please upload one."
NoDateSentMessage == "No 'dateSent' column in logs. Please check your CSV format."

\* What the branch leaves: how it ended, the data set it stored (None when
\* it stored none), the source of its directory and the values its variables
\* message_logs and customer_list held when it ended.
Branch(end, stored, source, logs, directory) ==
    [end |-> end, merged_data |-> stored, source |-> source,
     message_logs |-> logs, customer_list |-> directory]

\* LoadCustomerList preferring the default directory to the supplied one
LoadCustomerListDefaultFirst(customer_file, default) ==
    IF default THEN [source |-> "default", table |-> DefaultCustomerList]
    ELSE IF customer_file # None THEN [source |-> "custom", table |-> customer_file]
    ELSE [source |-> "none", table |-> None]

\* Lines 84-93: the directory the run works with and where it came from
LoadCustomerList(customer_file, default) ==
    IF customer_file # None THEN [source |-> "custom", table |-> customer_file]
    ELSE IF default THEN [source |-> "default", table |-> DefaultCustomerList]
    ELSE [source |-> "none", table |-> None]

\* Lines 101-103
PreprocessDates(logs) ==
    MapColumn(Rename(logs, "dateSent", "date"), "date", ToMountainDate)

\* NormalizeSegments taking the absolute value as lines 116-119 do of price
NormalizeSegmentsAbs(merged) ==
    MapColumn(NumericColumn(merged, "numSegments"), "numSegments",
              LAMBDA c : I(Abs(FillnaAsInt(c).n)))

\* Lines 112-115.  merged_data.get("numSegments", 0) is the number 0 when
\* the column is absent, and a number has no fillna: see NormalizeFails.
NormalizeSegments(merged) ==
    MapColumn(NumericColumn(merged, "numSegments"), "numSegments", FillnaAsInt)

\* NormalizePrice without the .abs() of line 119
NormalizePriceSigned(merged) ==
    Unify(MapColumn(NumericColumn(merged, "price"), "price",
                    LAMBDA c : IF c.k \in {"int", "float"} THEN c ELSE F(0)))

\* Lines 116-119
NormalizePrice(merged) ==
    Unify(MapColumn(NumericColumn(merged, "price"), "price", AbsFillna))

\* pd.to_numeric(0, errors="coerce") is the int 0, which has neither
\* fillna nor abs
NormalizeFails(merged) ==
    IF "numSegments" \notin merged.cols
    THEN "AttributeError: 'int' object has no attribute 'fillna'"
    ELSE IF "price" \notin merged.cols
    THEN "AttributeError: 'int' object has no attribute 'abs'"
    ELSE ""

\* Lines 112-122
StoreMerged(merged, source, logs, directory) ==
    IF NormalizeFails(merged) # "" THEN
        Branch(Ended("exception", NormalizeFails(merged)), None, source, logs, directory)
    ELSE
        Branch(Ended("ok", ""), NormalizePrice(NormalizeSegments(merged)), source,
               logs, directory)

\* Lines 108-111, the directory's PhoneNumber already text
MergeLogs(logs, directory, source) ==
    StoreMerged(Merge(logs, directory), source, logs, directory)

\* Lines 108-109
JoinOnPhoneNumber(logs, directory, source) ==
    IF "PhoneNumber" \notin logs.cols THEN
        Branch(Ended("exception", "KeyError: 'PhoneNumber'"), None, source, logs, directory)
    ELSE IF "PhoneNumber" \notin directory.cols THEN
        Branch(Ended("exception", "KeyError: 'PhoneNumber'"), None, source,
               MapColumn(logs, "PhoneNumber", AsStr), directory)
    ELSE
        MergeLogs(MapColumn(logs, "PhoneNumber", AsStr),
                  MapColumn(directory, "PhoneNumber", AsStr), source)

\* Preprocess without the check of lines 96-98: line 101 raises
PreprocessUnchecked(loaded, chosen) ==
    IF chosen.source = "none" THEN
        Branch(Ended("stopped", NoDefaultMessage), None, "none", loaded, None)
    ELSE IF "dateSent" \notin loaded.cols THEN
        Branch(Ended("exception", "KeyError: 'dateSent'"), None, chosen.source, loaded,
               chosen.table)
    ELSE
        JoinOnPhoneNumber(Rename(PreprocessDates(loaded), "to", "PhoneNumber"),
                          Rename(chosen.table, "Number", "PhoneNumber"), chosen.source)

\* Lines 84-106, the logs loaded
Preprocess(loaded, chosen) ==
    IF chosen.source = "none" THEN
        Branch(Ended("stopped", NoDefaultMessage), None, "none", loaded, None)
    ELSE IF "dateSent" \notin loaded.cols THEN
        Branch(Ended("stopped", NoDateSentMessage), None, chosen.source, loaded, chosen.table)
    ELSE
        JoinOnPhoneNumber(Rename(PreprocessDates(loaded), "to", "PhoneNumber"),
                          Rename(chosen.table, "Number", "PhoneNumber"), chosen.source)

\* Lines 79-125
UploadBranch(files, customer_file, default) ==
    IF files = <<>> THEN Branch(Ended("ok", ""), None, "none", None, None)
    ELSE Preprocess(load_twilio_logs(files), LoadCustomerList(customer_file, default))

-----------------------------------------------------------------------------
(* Aggregation: lines 151-241 *)

Rows(t) == 1..Len(t.rows)

\* frame[mask]: the rows that satisfy keep, in order
Filter(t, keep(_)) == Table(t.cols, SelectSeq(t.rows, keep))

\* FilteredData leaving out the rows without a date under either range
FilteredDataDated(merged, range) ==
    IF range = "Yesterday" THEN Filter(merged, LAMBDA r : r["date"] = D(yesterday))
    ELSE Filter(merged, LAMBDA r : ~IsNull(r["date"]))

\* Lines 152-157
FilteredData(merged, range) ==
    IF range = "Yesterday" THEN Filter(merged, LAMBDA r : r["date"] = D(yesterday))
    ELSE merged

\* frame.groupby(keys).size().reset_index(name="Count"): one record per
\* combination of key values that occurs; a row with a null key is in no group
GroupSize(t, keys) ==
    LET valid == {i \in Rows(t) : \A c \in keys : ~IsNull(t.rows[i][c])}
        keyOf(i) == [c \in keys |-> t.rows[i][c]]
    IN {[key |-> k, Count |-> Cardinality({i \in valid : keyOf(i) = k})] :
            k \in {keyOf(i) : i \in valid}}

RECURSIVE SumPrice(_)
SumPrice(rows) == IF rows = <<>> THEN 0 ELSE Value(Head(rows)["price"]) + SumPrice(Tail(rows))

\* frame.groupby("CO")["price"].sum().reset_index(name="Total Cost")
CostByCustomer(t) ==
    LET named == Filter(t, LAMBDA r : ~IsNull(r["CO"]))
    IN {[CO |-> co, Cost |-> SumPrice(Filter(named, LAMBDA r : r["CO"] = co).rows)] :
            co \in Column(named, "CO")}

\* pd.pivot_table(frame, values="PhoneNumber", index="CO",
\* columns="numSegments", aggfunc="count", fill_value=0).reset_index(), its
\* column names then mapped to str: per customer, the number of non-null
\* PhoneNumber cells under each segment count that occurs
PivotSegments(t) ==
    LET named == Filter(t, LAMBDA r : ~IsNull(r["CO"]) /\ ~IsNull(r["numSegments"]))
        counted(co, seg) ==
            Cardinality({i \in Rows(named) :
                /\ named.rows[i]["CO"] = co
                /\ named.rows[i]["numSegments"] = seg
                /\ ~IsNull(named.rows[i]["PhoneNumber"])})
        segs == Column(named, "numSegments")
    IN {[CO |-> co,
         counts |-> [name \in {IntStr(seg.n) : seg \in segs} |->
                        counted(co, CHOOSE seg \in segs : IntStr(seg.n) = name)]] :
            co \in Column(named, "CO")}

\* digits of n in groups of three: the "," of the format
RECURSIVE Grouped(_)
Grouped(n) ==
    IF n < 1000 THEN NatStr(n)
    ELSE Grouped(n \div 1000) \o "," \o FracDigits(n % 1000, 3)

\* DollarText cutting the amount off at the cent
DollarTextCut(x) ==
    "$" \o Grouped((x \div 100) \div 100) \o "." \o FracDigits((x \div 100) % 100, 2)

\* "${:,.2f}".format(x), x in ten-thousandths: rounded to the cent.  A sum
\* that ends on exactly half a cent is rounded by its binary value; the
\* prices of the input files never add up to one, and it is rounded to even
\* here.
DollarText(x) ==
    LET low == x \div 100
        rest == x % 100
        cents == IF rest > 50 \/ (rest = 50 /\ low % 2 = 1) THEN low + 1 ELSE low
    IN "$" \o Grouped(cents \div 100) \o "." \o FracDigits(cents % 100, 2)

\* Lines 223-239: total_messages, pivot_segments and total_cost merged on CO
\* (how="outer"), a value a side lacks for a customer left null; then the
\* Total Cost column formatted
CombinedTable(t) ==
    LET total_messages == GroupSize(t, {"CO"})
        pivot_segments == PivotSegments(t)
        total_cost == CostByCustomer(t)
        customers == {g.key["CO"] : g \in total_messages}
                        \cup {p.CO : p \in pivot_segments} \cup {c.CO : c \in total_cost}
        names == UNION {DOMAIN p.counts : p \in pivot_segments}
        messages(co) ==
            IF \E g \in total_messages : g.key["CO"] = co
            THEN I((CHOOSE g \in total_messages : g.key["CO"] = co).Count) ELSE NaN
        segment(co, name) ==
            IF \E p \in pivot_segments : p.CO = co
            THEN I((CHOOSE p \in pivot_segments : p.CO = co).counts[name]) ELSE NaN
        cost(co) ==
            IF \E c \in total_cost : c.CO = co
            THEN S(DollarText((CHOOSE c \in total_cost : c.CO = co).Cost)) ELSE S("$nan")
    IN {[CO |-> co, TotalMessages |-> messages(co),
         segments |-> [name \in names |-> segment(co, name)],
         TotalCost |-> cost(co)] : co \in customers}

-----------------------------------------------------------------------------
(* The analysis section of the script: lines 128-335 *)

\* most_frequent's top_n, and the head(10) of the message counts
TopN == 10

\* Series.value_counts().reset_index(): the non-null values of a column with
\* their counts (the order among them is not kept)
ValueCounts(t, c) ==
    {[value |-> g.key[c], Count |-> g.Count] : g \in GroupSize(t, {c})}

\* .head(n) of counts in descending order
HeadTop(counts, n) ==
    IF Cardinality(counts) <= n THEN counts
    ELSE CHOOSE top \in SUBSET counts :
            /\ Cardinality(top) = n
            /\ \A a \in top, b \in counts \ top : a.Count >= b.Count

most_frequent(t, c, top_n) == HeadTop(ValueCounts(t, c), top_n)

\* the values that may stand first in a value_counts result: the most
\* frequent ones (pandas' order among equal counts is its own)
Heads(counts) ==
    IF counts = {} THEN {None}
    ELSE {a.value : a \in {x \in counts : \A b \in counts : x.Count >= b.Count}}

\* selected_customer.upper() == "VITAL"
IsVital(customer) == customer \in {"VITAL", "Vital", "vital"}

\* body.str.split(":", n=1, expand=True)[0].str.strip(), cut to 25
\* characters and "..." when longer: the text before the first colon
RouteOf(body) ==
    CASE body.s = "ALARM: door open" -> S("ALARM")
      [] OTHER -> body

\* What a view leaves: how it ended, what it computed, and the options of
\* the phone number selectbox when it rendered one
Shown(end, computed, options) == [end |-> end, view |-> computed, options |-> options]

AllComputed(segment_data, status_data, by_customer, combined) ==
    [kind |-> "all", segment_data |-> segment_data, status_data |-> status_data,
     messages_by_customer |-> by_customer, combined_table |-> combined]

\* Lines 162-241: the All Customers overview
AllCustomersView(filtered) ==
    IF "date" \notin filtered.cols THEN
        {Shown(Ended("exception", "KeyError: 'date'"),
               AllComputed(None, None, None, None), {})}
    ELSE IF "status" \notin filtered.cols THEN
        {Shown(Ended("exception", "KeyError: 'status'"),
               AllComputed(GroupSize(filtered, {"date", "numSegments"}), None, None, None), {})}
    ELSE
        {Shown(Ended("ok", ""),
               AllComputed(GroupSize(filtered, {"date", "numSegments"}),
                           GroupSize(filtered, {"date", "status"}),
                           GroupSize(filtered, {"date", "CO"}),
                           CombinedTable(filtered)), {})}

CustomerComputed(segment_data, status_data, route, numbers, selected, messages) ==
    [kind |-> "customer", segment_data |-> segment_data, status_data |-> status_data,
     route_by_date |-> route, top_numbers |-> numbers, selected_number |-> selected,
     msgs_for_number |-> messages]

\* Lines 294-299: customer_data["Route"] = ...
WithRoute(customer_data) ==
    Table(customer_data.cols \cup {"Route"},
          [i \in Rows(customer_data) |->
              [c \in customer_data.cols \cup {"Route"} |->
                  IF c = "Route" THEN RouteOf(customer_data.rows[i]["body"])
                  ELSE customer_data.rows[i][c]]])

\* Lines 290-313: the chart for VITAL, None for another customer
RouteByDate(customer_data, customer) ==
    IF IsVital(customer) THEN GroupSize(WithRoute(customer_data), {"date", "Route"})
    ELSE None

\* What stops lines 290-299: a frame without body, a frame without rows
\* (the split yields no column 0), a body that is no text
RouteFails(customer_data, customer) ==
    IF ~IsVital(customer) THEN ""
    ELSE IF "body" \notin customer_data.cols THEN "KeyError: 'body'"
    ELSE IF customer_data.rows = <<>> THEN "KeyError: 0"
    ELSE IF \E c \in Column(customer_data, "body") : c.k # "str"
    THEN "TypeError: object of type 'float' has no len()"
    ELSE ""

\* Lines 325-335, selected the value of the selectbox
TopMessages(customer_data, customer, top_numbers, selected) ==
    IF selected = None \/ selected.s = "" THEN
        Shown(Ended("ok", ""),
              CustomerComputed(GroupSize(customer_data, {"date", "numSegments"}),
                               GroupSize(customer_data, {"date", "status"}),
                               RouteByDate(customer_data, customer),
                               top_numbers, selected, None),
              {a.value : a \in top_numbers})
    ELSE IF "body" \notin customer_data.cols THEN
        Shown(Ended("exception", "KeyError: 'body'"),
              CustomerComputed(GroupSize(customer_data, {"date", "numSegments"}),
                               GroupSize(customer_data, {"date", "status"}),
                               RouteByDate(customer_data, customer),
                               top_numbers, selected, None),
              {a.value : a \in top_numbers})
    ELSE
        Shown(Ended("ok", ""),
              CustomerComputed(GroupSize(customer_data, {"date", "numSegments"}),
                               GroupSize(customer_data, {"date", "status"}),
                               RouteByDate(customer_data, customer),
                               top_numbers, selected,
                               HeadTop(ValueCounts(Filter(customer_data,
                                   LAMBDA r : r["PhoneNumber"] = selected), "body"), TopN)),
              {a.value : a \in top_numbers})

\* Lines 315-325: the selectbox keeps its value while that is one of its
\* options, and else shows its first option
SelectFromTop(customer_data, customer, top_numbers, number) ==
    {TopMessages(customer_data, customer, top_numbers, selected) :
        selected \in IF number \in {a.value : a \in top_numbers} THEN {number}
                     ELSE Heads(top_numbers)}

\* Lines 248-335, customer_data the rows of the selected customer
CustomerDashboard(customer_data, customer, number) ==
    IF "date" \notin customer_data.cols THEN
        {Shown(Ended("exception", "KeyError: 'date'"),
               CustomerComputed(None, None, None, None, None, None), {})}
    ELSE IF "status" \notin customer_data.cols THEN
        {Shown(Ended("exception", "KeyError: 'status'"),
               CustomerComputed(GroupSize(customer_data, {"date", "numSegments"}),
                                None, None, None, None, None), {})}
    ELSE IF RouteFails(customer_data, customer) # "" THEN
        {Shown(Ended("exception", RouteFails(customer_data, customer)),
               CustomerComputed(GroupSize(customer_data, {"date", "numSegments"}),
                                GroupSize(customer_data, {"date", "status"}),
                                None, None, None, None), {})}
    ELSE
        SelectFromTop(customer_data, customer,
                      most_frequent(customer_data, "PhoneNumber", TopN), number)

\* Lines 246-248
CustomerView(filtered, customer, number) ==
    CustomerDashboard(Filter(filtered, LAMBDA r : r["CO"] = S(customer)), customer, number)

\* Lines 135-137
AllCustomers(merged) ==
    {"All Customers"} \cup {c.s : c \in {x \in Column(merged, "CO") : ~IsNull(x)}}

\* What the analysis section leaves: what its view left, and the values of
\* the two sidebar radios (options empty when the first was not reached)
Analysed(shown, options, customer, range) ==
    [end |-> shown.end, view |-> shown.view, numbers |-> shown.options,
     all_customers |-> options, selected_customer |-> customer, time_range |-> range,
     selected_number |->
        IF shown.view.kind = "customer" THEN shown.view.selected_number ELSE None]

Unshown(message) == Shown(Ended("exception", message), [kind |-> "failed"], {})

\* Lines 151-162, selected the value of the customer radio
AnalyseSelected(merged, options, selected, range, number) ==
    IF range = "Yesterday" /\ "date" \notin merged.cols THEN
        {Analysed(Unshown("KeyError: 'date'"), options, selected, range)}
    ELSE IF selected = "All Customers" THEN
        {Analysed(shown, options, selected, range) :
            shown \in AllCustomersView(FilteredData(merged, range))}
    ELSE
        {Analysed(shown, options, selected, range) :
            shown \in CustomerView(FilteredData(merged, range), selected, number)}

\* Lines 128-157.  customer, range and number are the values the widgets
\* hold when the run starts; a radio whose value is none of its options
\* shows its first.
Analysis(merged, customer, range, number) ==
    IF "CO" \notin merged.cols THEN
        {Analysed(Unshown("KeyError: 'CO'"), {}, "All Customers", "All History")}
    ELSE
        AnalyseSelected(merged, AllCustomers(merged),
                        IF customer \in AllCustomers(merged) THEN customer
                        ELSE "All Customers",
                        range, number)

-----------------------------------------------------------------------------
(* One run of the script *)

\* the widget values and the outcome when the analysis section is not reached
NotAnalysed(end) ==
    Analysed(Shown(end, [kind |-> "none"], {}), {}, "All Customers", "All History")

\* Ran storing the filtered rows back into the session
RanStoresFiltered(uploading, files, customer_file, stored, upload, analysed) ==
    [merged_data |-> IF stored = None THEN None
                     ELSE FilteredData(stored, analysed.time_range),
     uploaded_files |-> IF uploading THEN files ELSE <<>>,
     uploaded_customer_file |-> IF uploading THEN customer_file ELSE None,
     selected_customer |-> analysed.selected_customer,
     time_range |-> analysed.time_range,
     selected_number |-> analysed.selected_number,
     uploading |-> uploading,
     message_logs |-> upload.message_logs,
     customer_list |-> upload.customer_list,
     outcome |-> [status |-> analysed.end.status, message |-> analysed.end.message,
                  source |-> IF uploading THEN upload.source ELSE "none",
                  all_customers |-> analysed.all_customers,
                  numbers |-> analysed.numbers],
     view |-> analysed.view]

\* What a run leaves behind.  A widget the run does not render loses its
\* value.
Ran(uploading, files, customer_file, stored, upload, analysed) ==
    [merged_data |-> stored,
     uploaded_files |-> IF uploading THEN files ELSE <<>>,
     uploaded_customer_file |-> IF uploading THEN customer_file ELSE None,
     selected_customer |-> analysed.selected_customer,
     time_range |-> analysed.time_range,
     selected_number |-> analysed.selected_number,
     uploading |-> uploading,
     message_logs |-> upload.message_logs,
     customer_list |-> upload.customer_list,
     outcome |-> [status |-> analysed.end.status, message |-> analysed.end.message,
                  source |-> IF uploading THEN upload.source ELSE "none",
                  all_customers |-> analysed.all_customers,
                  numbers |-> analysed.numbers],
     view |-> analysed.view]

\* Lines 128-335 after the upload branch
AfterUpload(files, customer_file, upload, customer, range, number) ==
    IF upload.end.status # "ok" \/ upload.merged_data = None THEN
        {Ran(TRUE, files, customer_file, None, upload, NotAnalysed(upload.end))}
    ELSE
        {Ran(TRUE, files, customer_file, upload.merged_data, upload, analysed) :
            analysed \in Analysis(upload.merged_data, customer, range, number)}

\* Lines 66-335: every state a run may leave behind.  The run starts from
\* the session's merged_data (session), the widget values and the existence
\* of the default directory.
Script(default, files, customer_file, session, customer, range, number) ==
    IF session = None THEN
        AfterUpload(files, customer_file, UploadBranch(files, customer_file, default),
                    customer, range, number)
    ELSE
        {Ran(FALSE, files, customer_file, session, Branch(None, None, None, None, None),
             analysed) :
            analysed \in Analysis(session, customer, range, number)}

Run(default, files, customer_file, session, customer, range, number) ==
    \E run \in Script(default, files, customer_file, session, customer, range, number) :
        /\ merged_data' = run.merged_data
        /\ uploaded_files' = run.uploaded_files
        /\ uploaded_customer_file' = run.uploaded_customer_file
        /\ selected_customer' = run.selected_customer
        /\ time_range' = run.time_range
        /\ selected_number' = run.selected_number
        /\ message_logs' = IF run.uploading THEN run.message_logs ELSE message_logs
        /\ customer_list' = IF run.uploading THEN run.customer_list ELSE customer_list
        /\ outcome' = run.outcome
        /\ view' = run.view
        /\ default_exists' = default

-----------------------------------------------------------------------------
(* Interactions *)

\* the first run of a session: nothing uploaded, nothing stored
Init ==
    /\ default_exists \in BOOLEAN
    /\ uploaded_files = <<>>
    /\ uploaded_customer_file = None
    /\ merged_data = None
    /\ selected_customer = "All Customers"
    /\ time_range = "All History"
    /\ selected_number = None
    /\ message_logs = None
    /\ customer_list = None
    /\ outcome = [status |-> "ok", message |-> "", source |-> "none",
                  all_customers |-> {}, numbers |-> {}]
    /\ view = [kind |-> "none"]

\* Line 66: the uploaders are rendered while the session holds no data set
UploadersShown == merged_data = None

\* the user adds log files to the uploader of line 69
AddLogs ==
    /\ UploadersShown
    /\ \E files \in FileSeqs(MaxFiles - Len(uploaded_files)) \ {<<>>} :
        Run(default_exists, uploaded_files \o files, uploaded_customer_file, merged_data,
            selected_customer, time_range, selected_number)

\* the user removes a log file from the uploader of line 69
RemoveLog ==
    /\ UploadersShown
    /\ \E i \in 1..Len(uploaded_files) :
        Run(default_exists,
            SubSeq(uploaded_files, 1, i - 1) \o SubSeq(uploaded_files, i + 1, Len(uploaded_files)),
            uploaded_customer_file, merged_data, selected_customer, time_range,
            selected_number)

\* the user puts a customer list into the uploader of line 74, or removes it
UploadCustomerList ==
    /\ UploadersShown
    /\ \E file \in (CustomerFiles \cup {None}) \ {uploaded_customer_file} :
        Run(default_exists, uploaded_files, file, merged_data,
            selected_customer, time_range, selected_number)

\* the sidebar radio of line 140
SelectCustomer ==
    \E customer \in outcome.all_customers \ {selected_customer} :
        Run(default_exists, uploaded_files, uploaded_customer_file, merged_data,
            customer, time_range, selected_number)

\* the sidebar radio of line 146, rendered once line 140 has been passed
SelectTimeRange ==
    /\ outcome.all_customers # {}
    /\ \E range \in {"All History", "Yesterday"} \ {time_range} :
        Run(default_exists, uploaded_files, uploaded_customer_file, merged_data,
            selected_customer, range, selected_number)

\* the selectbox of line 325
SelectNumber ==
    \E number \in outcome.numbers \ {selected_number} :
        Run(default_exists, uploaded_files, uploaded_customer_file, merged_data,
            selected_customer, time_range, number)

\* the user reruns the script without touching a widget
Rerun ==
    Run(default_exists, uploaded_files, uploaded_customer_file, merged_data,
        selected_customer, time_range, selected_number)

Next ==
    \/ AddLogs
    \/ RemoveLog
    \/ UploadCustomerList
    \/ SelectCustomer
    \/ SelectTimeRange
    \/ SelectNumber
    \/ Rerun

Spec == Init /\ [][Next]_vars

-----------------------------------------------------------------------------
(* Properties *)

Stored == merged_data # None

\* the number of rows of t that satisfy p
CountRows(t, p(_)) == Cardinality({i \in Rows(t) : p(t.rows[i])})

\* a row restricted to some of its columns
Project(r, cols) == [c \in cols |-> r[c]]

\* the log columns the merge hands on unchanged, and the directory's own
KeptLogColumns == message_logs.cols \ {"numSegments", "price"}
DirectoryColumns == customer_list.cols \ {"PhoneNumber"}

\* the directory rows with the PhoneNumber of log row l
Matches(l) == {j \in Rows(customer_list) :
                customer_list.rows[j]["PhoneNumber"] = l["PhoneNumber"]}

RECURSIVE SumOver(_, _)
SumOver(f(_), rows) == IF rows = <<>> THEN 0 ELSE f(Head(rows)) + SumOver(f, Tail(rows))

\* merged records a left join owes the log row l
Owed(l) == IF Matches(l) = {} THEN 1 ELSE Cardinality(Matches(l))

\* C1: the stored data set is the left join of the logs onto the directory on
\* the PhoneNumber text.  Every log row has one merged record per directory
\* entry with its PhoneNumber, or one with null directory columns when there
\* is none; so the merged row count is the log row count plus the extra
\* matches, and the log row count when no number is listed twice.
C1_LeftJoin ==
    Stored =>
        /\ Len(merged_data.rows) = SumOver(Owed, message_logs.rows)
        /\ \A i \in Rows(message_logs) :
            LET l == message_logs.rows[i]
                same == CountRows(message_logs,
                            LAMBDA x : Project(x, KeptLogColumns) = Project(l, KeptLogColumns))
            IN  /\ \A j \in Matches(l) :
                    LET d == customer_list.rows[j]
                    IN CountRows(merged_data, LAMBDA m :
                            /\ Project(m, KeptLogColumns) = Project(l, KeptLogColumns)
                            /\ Project(m, DirectoryColumns) = Project(d, DirectoryColumns))
                        = same * CountRows(customer_list, LAMBDA x : x = d)
                /\ Matches(l) = {} =>
                    CountRows(merged_data, LAMBDA m :
                            /\ Project(m, KeptLogColumns) = Project(l, KeptLogColumns)
                            /\ \A c \in DirectoryColumns : IsNull(m[c]))
                        = same
        /\ (\A j, k \in Rows(customer_list) :
                customer_list.rows[j]["PhoneNumber"] = customer_list.rows[k]["PhoneNumber"]
                    => j = k)
            => Len(merged_data.rows) = Len(message_logs.rows)

\* a stored data set with a log row that matches two directory entries and a
\* log row that matches none
C1_Witness ==
    /\ Stored
    /\ \E i \in Rows(message_logs) : Cardinality(Matches(message_logs.rows[i])) = 2
    /\ \E i \in Rows(message_logs) : Matches(message_logs.rows[i]) = {}
    /\ Len(merged_data.rows) > Len(message_logs.rows)

\* the merged table of line 111, before lines 112-119 normalise it; its rows
\* are those of merged_data in the same order
Joined == Merge(message_logs, customer_list)

\* C2 as stated: every stored record's segment count is a non-null integer
\* that is at least 0.
C2_SegmentsNonNegative ==
    Stored => \A i \in Rows(merged_data) :
        /\ merged_data.rows[i]["numSegments"].k = "int"
        /\ merged_data.rows[i]["numSegments"].n >= 0

\* C2, amended: every stored record's segment count is a non-null integer:
\* the source value cut to an integer toward zero (so a negative source
\* stays negative), the number a numeric text stands for, and 0 for a
\* missing or non-numeric value.
C2_SegmentsInteger ==
    Stored => \A i \in Rows(merged_data) :
        LET src == Joined.rows[i]["numSegments"]
            out == merged_data.rows[i]["numSegments"]
        IN  /\ out.k = "int"
            /\ src.k = "int" => out.n = src.n
            /\ src.k = "float" /\ src.n >= 0 => out.n = src.n \div Scale
            /\ src.k = "float" /\ src.n < 0 => out.n = -((-src.n) \div Scale)
            /\ src.k = "nan" => out.n = 0
            /\ src.k = "str" => out.n = (IF src.s = "3" THEN 3 ELSE 0)
            /\ (src.k \in {"int", "float"} /\ src.n < 0 /\ src.n <= -Scale) => out.n < 0

\* a stored record with a negative segment count, beside records whose
\* source was text and missing
C2_Witness ==
    /\ Stored
    /\ \E i \in Rows(merged_data) : merged_data.rows[i]["numSegments"].n < 0
    /\ \E i \in Rows(merged_data) : Joined.rows[i]["numSegments"] = S("abc")
    /\ \E i \in Rows(merged_data) : Joined.rows[i]["numSegments"] = NaN

\* C3: every stored record's cost is non-null and at least 0: the absolute
\* value of a numeric price, and 0 for a missing or non-numeric one.
C3_CostNonNegative ==
    Stored => \A i \in Rows(merged_data) :
        LET src == Joined.rows[i]["price"]
            out == merged_data.rows[i]["price"]
        IN  /\ out.k \in {"int", "float"}
            /\ Value(out) >= 0
            /\ src.k \in {"int", "float"} =>
                    Value(out) = (IF Value(src) < 0 THEN -Value(src) ELSE Value(src))
            /\ src.k = "nan" => Value(out) = 0
            /\ src.k = "str" => Value(out) = (IF src.s = "0.02" THEN 200 ELSE 0)

\* stored records from a negative price, a positive one, a text and a
\* missing value
C3_Witness ==
    /\ Stored
    /\ \E i \in Rows(merged_data) :
            Joined.rows[i]["price"] = F(-79) /\ merged_data.rows[i]["price"] = F(79)
    /\ \E i \in Rows(merged_data) : Joined.rows[i]["price"] = F(200)
    /\ \E i \in Rows(merged_data) : Joined.rows[i]["price"] = NaN

\* the uploader holds log files none of which has a dateSent column
LogsLackDateSent ==
    /\ uploaded_files # <<>>
    /\ "dateSent" \notin load_twilio_logs(uploaded_files).cols

\* the same, and a directory is at hand: a supplied one or the default
LogsLackDateSentOnly ==
    LogsLackDateSent /\ (uploaded_customer_file # None \/ default_exists)

Halted(message) ==
    /\ outcome.status = "stopped"
    /\ outcome.message = message
    /\ ~Stored
    /\ view.kind = "none"
    /\ message_logs = load_twilio_logs(uploaded_files)

\* C4 as stated: logs without a dateSent column halt the run with the schema
\* error before any preprocessing; nothing is stored, the analysis section is
\* not reached and the uploaders stay.
C4_SchemaErrorReported == LogsLackDateSent => Halted(NoDateSentMessage)

\* C4, amended: logs without a dateSent column halt the run with a reported
\* error before any preprocessing: the schema error when a directory is at
\* hand (a supplied one, or the default), the missing-default error when
\* none is; in both cases nothing is stored, the analysis section is not
\* reached and the uploaders stay.
C4_NoDateSentHalts ==
    LogsLackDateSent =>
        Halted(IF uploaded_customer_file # None \/ default_exists
               THEN NoDateSentMessage ELSE NoDefaultMessage)

\* logs without dateSent uploaded with a directory at hand: the schema error
C4_Witness == LogsLackDateSentOnly /\ outcome.message = NoDateSentMessage

\* C5: a stored data set has the columns PhoneNumber, date, numSegments,
\* price and CO, so that the analysis section does not fail on a missing
\* column.
C5_RequiredColumns ==
    Stored =>
        /\ {"PhoneNumber", "date", "numSegments", "price", "CO"} \subseteq merged_data.cols
        /\ outcome.message # "KeyError: 'CO'"

\* the directory as lines 106 and 109 leave it
Prepared(directory) ==
    MapColumn(Rename(directory, "Number", "PhoneNumber"), "PhoneNumber", AsStr)

\* C6: with log files uploaded, a supplied directory is the one used; with
\* none supplied the default is used when it exists; with neither the run
\* halts with the missing-default error and stores nothing.
C6_DirectoryChoice ==
    uploaded_files # <<>> =>
        /\ uploaded_customer_file # None =>
            /\ outcome.source = "custom"
            /\ Stored => customer_list = Prepared(uploaded_customer_file)
        /\ uploaded_customer_file = None /\ default_exists =>
            /\ outcome.source = "default"
            /\ Stored => customer_list = Prepared(DefaultCustomerList)
        /\ uploaded_customer_file = None /\ ~default_exists =>
            /\ outcome.source = "none"
            /\ outcome.status = "stopped"
            /\ outcome.message = NoDefaultMessage
            /\ ~Stored

\* logs uploaded with no directory supplied and no default: the halt
C6_Witness ==
    /\ uploaded_files # <<>>
    /\ uploaded_customer_file = None
    /\ ~default_exists
    /\ outcome.message = NoDefaultMessage

\* the rows the selected time range keeps: all of them, or yesterday's
InRange(r) == time_range = "Yesterday" => r["date"] = D(yesterday)

\* the rows the aggregates of the last run are to be computed from
Shown_filtered == Filter(merged_data, InRange)

OverviewShown == Stored /\ view.kind = "all" /\ outcome.status = "ok"

ValidDate(r) == ~IsNull(r["date"])

\* the Total Messages of a customer in the combined table
TotalMessagesOf(co) == (CHOOSE row \in view.combined_table : row.CO = co).TotalMessages

\* C7 as stated: no aggregate includes a row with an invalid date; the
\* per-customer message count counts the rows with a valid date only.
C7_InvalidDatesExcluded ==
    OverviewShown => \A row \in view.combined_table :
        row.TotalMessages =
            I(CountRows(Shown_filtered, LAMBDA r : r["CO"] = row.CO /\ ValidDate(r)))

\* the sum of the counts of a grouped table
RECURSIVE TotalCount(_)
TotalCount(groups) ==
    IF groups = {} THEN 0
    ELSE LET g == CHOOSE x \in groups : TRUE IN g.Count + TotalCount(groups \ {g})

\* C7, amended: a log row whose dateSent cannot be parsed does not abort
\* loading and is kept with a null date.  The aggregates grouped by date and
\* every aggregate under the Yesterday filter leave it out; under All History
\* the per-customer message count, segment pivot and cost sum include it.
C7_InvalidDatesRetained ==
    /\ Stored =>
        CountRows(merged_data, LAMBDA r : ~ValidDate(r))
            >= CountRows(message_logs, LAMBDA r : ~ValidDate(r))
    /\ OverviewShown =>
        /\ \A g \in view.segment_data \cup view.status_data \cup view.messages_by_customer :
                g.key["date"].k = "date"
        /\ TotalCount(view.segment_data) = CountRows(Shown_filtered, ValidDate)
        /\ time_range = "Yesterday" => \A i \in Rows(Shown_filtered) :
                ValidDate(Shown_filtered.rows[i])
        /\ \A row \in view.combined_table :
            /\ row.TotalMessages = I(CountRows(Shown_filtered, LAMBDA r : r["CO"] = row.CO))
            /\ \A name \in DOMAIN row.segments :
                row.segments[name] = I(CountRows(Shown_filtered, LAMBDA r :
                    r["CO"] = row.CO /\ IntStr(r["numSegments"].n) = name))

\* the overview of all history over a record of a known customer whose
\* dateSent was no timestamp
C7_Witness ==
    /\ OverviewShown
    /\ time_range = "All History"
    /\ \E i \in Rows(merged_data) :
        /\ ~ValidDate(merged_data.rows[i])
        /\ ~IsNull(merged_data.rows[i]["CO"])
        /\ TotalMessagesOf(merged_data.rows[i]["CO"]) # I(0)

\* C8: when the filtered table is empty, every aggregate of the All
\* Customers view is empty and the run ends without an error.
C8_EmptyFilter ==
    (Stored /\ view.kind = "all" /\ Shown_filtered.rows = <<>>) =>
        /\ outcome.status = "ok"
        /\ view.segment_data = {}
        /\ view.status_data = {}
        /\ view.messages_by_customer = {}
        /\ view.combined_table = {}

\* the text of an amount with all its decimals, two at least
ExactDollarText(x) ==
    IF x % 100 = 0 THEN DollarText(x)
    ELSE "$" \o Grouped(x \div Scale) \o "." \o FracStr(x % Scale, 4)

\* the customers of the filtered rows
FilteredCustomers == {c \in Column(Shown_filtered, "CO") : ~IsNull(c)}

CostOf(co) == SumOver(LAMBDA r : Value(r["price"]),
                      Filter(Shown_filtered, LAMBDA r : r["CO"] = co).rows)

\* C9 as stated: the Total Cost of a customer in the combined table is the
\* sum of the costs of the customer's filtered rows.
C9_TotalCostIsSum ==
    OverviewShown => \A row \in view.combined_table :
        row.TotalCost = S(ExactDollarText(CostOf(row.CO)))

\* the whole numbers of cents nearest to an amount in ten-thousandths
NearestCents(x) == {c \in {x \div 100, x \div 100 + 1} : Abs(100 * c - x) <= 50}

CentsText(c) == "$" \o Grouped(c \div 100) \o "." \o FracDigits(c % 100, 2)

\* C9, amended: the combined table has one row per customer code of the
\* filtered rows; its Total Messages is the number of the customer's rows,
\* each segment column the number of those rows with that segment count (0
\* when there is none), and its Total Cost the sum of their costs rounded to
\* the cent and written as a dollar amount.
C9_CombinedSummary ==
    OverviewShown =>
        /\ {row.CO : row \in view.combined_table} = FilteredCustomers
        /\ Cardinality(view.combined_table) = Cardinality(FilteredCustomers)
        /\ \A row \in view.combined_table :
            /\ row.TotalMessages = I(CountRows(Shown_filtered, LAMBDA r : r["CO"] = row.CO))
            /\ DOMAIN row.segments =
                    {IntStr(r["numSegments"].n) :
                        r \in {Shown_filtered.rows[i] : i \in
                            {k \in Rows(Shown_filtered) : ~IsNull(Shown_filtered.rows[k]["CO"])}}}
            /\ \A name \in DOMAIN row.segments :
                row.segments[name] = I(CountRows(Shown_filtered, LAMBDA r :
                    r["CO"] = row.CO /\ IntStr(r["numSegments"].n) = name))
            /\ \E c \in NearestCents(CostOf(row.CO)) : row.TotalCost = S(CentsText(c))

\* a combined table of two customers with a segment count only one of them
\* has and a cost that is no whole number of cents
C9_Witness ==
    /\ OverviewShown
    /\ Cardinality(view.combined_table) = 2
    /\ \E row \in view.combined_table :
        /\ \E name \in DOMAIN row.segments : row.segments[name] = I(0)
        /\ \E name \in DOMAIN row.segments : row.segments[name].n >= 2
        /\ CostOf(row.CO) % 100 # 0

\* the data set computed from scratch from the files the uploaders hold
FromUploads ==
    NormalizePrice(NormalizeSegments(
        Merge(MapColumn(Rename(PreprocessDates(load_twilio_logs(uploaded_files)),
                               "to", "PhoneNumber"), "PhoneNumber", AsStr),
              Prepared(IF uploaded_customer_file # None THEN uploaded_customer_file
                       ELSE DefaultCustomerList))))

=============================================================================
